---- MODULE Spec2Model ----
(***************************************************************************)
(* Enrollment reconciliation of tanwir-scheduler: the pipeline run of      *)
(* index.js (runScheduledTask, started by the cron timer or by POST        *)
(* /trigger-sync) and saveToFirestore of services/firebase.js, which       *)
(* groups course records by student email and merges them into the         *)
(* authorizedUsers collection with one write batch per run.                *)
(***************************************************************************)
EXTENDS Integers, Sequences, FiniteSets, TLC

\* ------------------------------------------------------------------ bounds
\* Records one fetch window hands to a run, pipeline runs explored, and
\* failures of the collaborators (order source, store, auth provider) explored.
MaxRecs == 2
MaxRuns == 3
MaxFaults == 1
\* Line items of one order handed to the course mapper.
MaxItems == 2

\* ------------------------------------------------------------- characters
\* Strings that the code transforms are sequences of one-character strings.
\* String.prototype.toLowerCase on one character.
LowerChar(c) ==
  CASE c = "A" -> "a"
    [] c = "B" -> "b"
    [] c = "C" -> "c"
    [] c = "G" -> "g"
    [] c = "O" -> "o"
    [] c = "P" -> "p"
    [] c = "T" -> "t"
    [] c = "X" -> "x"
    [] OTHER -> c

\* JS whitespace as String.prototype.trim and the regex class \s see it.
IsSpace(c) == c \in {" ", "\t", "\n"}

ToLowerCase(s) == [i \in 1..Len(s) |-> LowerChar(s[i])]

RECURSIVE TrimStart(_)
TrimStart(s) ==
  IF s # <<>> /\ IsSpace(Head(s)) THEN TrimStart(Tail(s)) ELSE s

RECURSIVE TrimEnd(_)
TrimEnd(s) ==
  IF s # <<>> /\ IsSpace(s[Len(s)]) THEN TrimEnd(SubSeq(s, 1, Len(s) - 1)) ELSE s

Trim(s) == TrimEnd(TrimStart(s))

\* record.studentInfo.email.toLowerCase().trim()
NormalizeEmailNoLower(raw) == Trim(raw)
NormalizeEmail(raw) == Trim(ToLowerCase(raw))

\* The format check of the earlier saveToFirestore revision:
\* /^[^\s@]+@[^\s@]+\.[^\s@]+$/
Plain(s) == s # <<>> /\ \A i \in 1..Len(s) : ~IsSpace(s[i]) /\ s[i] # "@"

EmailRegexTest(s) ==
  \E a \in 1..Len(s) : \E d \in (a + 1)..Len(s) :
     /\ s[a] = "@"
     /\ s[d] = "."
     /\ Plain(SubSeq(s, 1, a - 1))
     /\ Plain(SubSeq(s, a + 1, d - 1))
     /\ Plain(SubSeq(s, d + 1, Len(s)))

\* ---------------------------------------------------------------- records
\* Strings the code only passes on or compares are TLA+ strings; an absent
\* (undefined) one and the empty one are both "", falsy in the code.
\* JS a || b on such strings.
OrElse(a, b) == IF a # "" THEN a ELSE b

\* An absent or empty email.
NoEmail == <<>>

EmailA      == <<"a", "@", "x", ".", "c">>
EmailAUpper == <<"A", "@", "X", ".", "c">>
EmailB      == <<"b", "@", "x", ".", "c">>
EmailBad    == <<"n", "o", "t", "-", "a", "n", "-", "e", "m", "a", "i", "l">>
EmailBlank  == <<" ", " ">>

\* The studentInfo the builders extract from a line item's customizations;
\* the email is customizations["Email"]?.trim().
StudentInfo(first, last, email, password) ==
  [firstName |-> first, lastName |-> last, email |-> Trim(email),
   password |-> password]

\* String.prototype.trim on the variant option values.
TrimWord(w) ==
  CASE w = "Year 1 " -> "Year 1"
    [] w = " Year 1" -> "Year 1"
    [] w = "Module 1 " -> "Module 1"
    [] OTHER -> w

\* extractLevel of AssociatesProgram.js
extractLevel(section) == TrimWord(section)

\* createSingleStudentModel of AssociatesProgram.js
AssociatesRecord(id, num, section, plan, info) ==
  [courseId |-> id, orderNumber |-> num, courseName |-> "Associates Program",
   courseType |-> "AssociatesProgram", studentInfo |-> info,
   placementInfo |-> [level |-> extractLevel(section), plan |-> plan,
                      section |-> section]]

\* createSingleStudentModel of PropheticGuidance.js
GuidanceRecord(id, num, section, plan, info) ==
  [courseId |-> id, orderNumber |-> num, courseName |-> "Prophetic Guidance",
   courseType |-> "PropheticGuidance", studentInfo |-> info,
   guidanceDetails |-> [module |-> section, plan |-> plan, section |-> section]]

\* The course records of the order source, in order of modification.  Every
\* order/line item has its own courseId; two records repeat one identity
\* (courseType, courseName, section, plan) under another courseId, two differ
\* in plan only, one carries a malformed email and one a blank one.
Feed ==
  << AssociatesRecord("O1-1", "1", "Year 1", "Full",
                      StudentInfo("Amina", "Khan", EmailA, "pw1")),
     AssociatesRecord("O2-1", "2", "Year 1", "Monthly",
                      StudentInfo("Amina", "K", EmailAUpper, "")),
     GuidanceRecord("O3-1", "3", "Module 1", "Full",
                    StudentInfo("Amina", "Khan", EmailA, "pw1")),
     GuidanceRecord("O4-1", "4", "Module 1", "Full",
                    StudentInfo("Amina", "Khan", EmailA, "pw2")),
     GuidanceRecord("O5-1", "5", "Module 1", "Full",
                    StudentInfo("Bilal", "Omar", EmailB, "")),
     AssociatesRecord("O6-1", "6", "Year 1", "Full",
                      StudentInfo("Nobody", "", EmailBad, "pw3")),
     AssociatesRecord("O7-1", "7", "Year 2", "Full",
                      StudentInfo("Ghost", "", EmailBlank, "")) >>

\* What one fetch can return: fetchAllOrders asks for the orders modified
\* between modifiedAfter and modifiedBefore, so a run gets the records of one
\* time window of the feed, here at most MaxRecs of them.  A window is the
\* pair <<from, to>> of feed positions it spans, empty when to < from.
FetchWindows ==
  { v \in (1..(Len(Feed) + 1)) \X (0..Len(Feed)) :
      v[1] <= v[2] + 1 /\ v[2] - v[1] + 1 <= MaxRecs }

\* modifiedAfter = now - lookback and modifiedBefore = now, and now never goes
\* back: neither end of a window lies before that end of the window fetched
\* before it.
WindowsAfter(w) == { v \in FetchWindows : v[1] >= w[1] /\ v[2] >= w[2] }

\* ------------------------------------------------- saveToFirestore, pure
\* The forEach filter: records without studentInfo.email are skipped.
HasEmailAlways(record) == TRUE
HasEmail(record) == record.studentInfo.email # NoEmail

EmailOf(record) == NormalizeEmail(record.studentInfo.email)

\* Object.keys(studentsByEmail): the normalized emails in order of first
\* appearance.
RECURSIVE GroupKeysFrom(_, _)
GroupKeysFrom(recs, acc) ==
  IF recs = <<>> THEN acc
  ELSE LET r == Head(recs) IN
       IF HasEmail(r) /\ ~(\E i \in 1..Len(acc) : acc[i] = EmailOf(r))
       THEN GroupKeysFrom(Tail(recs), Append(acc, EmailOf(r)))
       ELSE GroupKeysFrom(Tail(recs), acc)

GroupKeys(recs) == GroupKeysFrom(recs, <<>>)

\* studentsByEmail[email]
CoursesForUser(recs, email) ==
  SelectSeq(recs, LAMBDA r : HasEmail(r) /\ EmailOf(r) = email)

\* const { studentInfo: _, ...courseOnly } = course
CourseOnlyKeepInfo(course) == course
CourseOnly(course) == [k \in (DOMAIN course) \ {"studentInfo"} |-> course[k]]

\* const { password, ...studentInfoWithoutPassword } = studentInfo;
\* studentInfoWithoutPassword.email = email
StudentInfoKeepPassword(info, email) == [info EXCEPT !.email = email]
StudentInfoRawEmail(info, email) == [k \in (DOMAIN info) \ {"password"} |-> info[k]]
StudentInfoWithoutPassword(info, email) ==
  [k \in (DOMAIN info) \ {"password"} |-> IF k = "email" THEN email ELSE info[k]]

\* course.courseId || course.orderNumber
CourseKey(course) == OrElse(course.courseId, course.orderNumber)

\* The callback of existingCourses.some(...): the "enhanced check".
SameEnrollment(course, existingCourse) ==
  IF course.courseType = "AssociatesProgram"
     /\ existingCourse.courseType = "AssociatesProgram"
  THEN /\ course.courseName = existingCourse.courseName
       /\ course.placementInfo.section = existingCourse.placementInfo.section
  ELSE IF course.courseType = "PropheticGuidance"
          /\ existingCourse.courseType = "PropheticGuidance"
  THEN /\ course.courseName = existingCourse.courseName
       /\ course.guidanceDetails.section = existingCourse.guidanceDetails.section
       /\ course.guidanceDetails.plan = existingCourse.guidanceDetails.plan
  ELSE FALSE

\* The callback of coursesForUser.filter(...)
IsNewCourseAlways(course, existingCourses) == TRUE
IsNewCourse(course, existingCourses) ==
  /\ ~(\E i \in 1..Len(existingCourses) :
          CourseKey(existingCourses[i]) = CourseKey(course))
  /\ ~(\E i \in 1..Len(existingCourses) :
          SameEnrollment(course, existingCourses[i]))

NewCourses(coursesForUser, existingCourses) ==
  SelectSeq(coursesForUser, LAMBDA c : IsNewCourse(c, existingCourses))

MapCourseOnly(courses) == [i \in 1..Len(courses) |-> CourseOnly(courses[i])]

\* ------------------------------------------------------ the document store
\* FieldValue.arrayUnion: each element not yet in the array is appended.
RECURSIVE ArrayUnion(_, _)
ArrayUnion(arr, elems) ==
  IF elems = <<>> THEN arr
  ELSE IF \E i \in 1..Len(arr) : arr[i] = Head(elems)
       THEN ArrayUnion(arr, Tail(elems))
       ELSE ArrayUnion(Append(arr, Head(elems)), Tail(elems))

\* db.collection("authorizedUsers").where("studentInfo.email", "==", email)
QueryByEmail(st, email) == { id \in DOMAIN st : st[id].studentInfo.email = email }

\* batch.update(existingUserDoc.ref, {courses: arrayUnion(...), lastSynced})
UpdateWrite(ref, coursesToAdd) ==
  [op |-> "update", ref |-> ref, courses |-> coursesToAdd]

\* batch.set(docRef, {studentInfo, courses, createdAt, lastSynced})
SetWrite(ref, info, courses) ==
  [op |-> "set", ref |-> ref, studentInfo |-> info, courses |-> courses]

\* One write of a committed batch, stamped with the server time `now`.
ApplyWriteRestamp(st, w, now) ==
  IF w.op = "set"
  THEN [id \in (DOMAIN st) \cup {w.ref} |->
          IF id = w.ref
          THEN [studentInfo |-> w.studentInfo, courses |-> w.courses,
                createdAt |-> now, lastSynced |-> now]
          ELSE st[id]]
  ELSE [st EXCEPT ![w.ref] =
          [@ EXCEPT !.courses = ArrayUnion(@, w.courses), !.createdAt = now,
                    !.lastSynced = now]]
ApplyWrite(st, w, now) ==
  IF w.op = "set"
  THEN [id \in (DOMAIN st) \cup {w.ref} |->
          IF id = w.ref
          THEN [studentInfo |-> w.studentInfo, courses |-> w.courses,
                createdAt |-> now, lastSynced |-> now]
          ELSE st[id]]
  ELSE [st EXCEPT ![w.ref] =
          [@ EXCEPT !.courses = ArrayUnion(@, w.courses), !.lastSynced = now]]

RECURSIVE ApplyBatch(_, _, _)
ApplyBatch(st, writes, now) ==
  IF writes = <<>> THEN st
  ELSE ApplyBatch(ApplyWrite(st, Head(writes), now), Tail(writes), now)

\* An update of a document that does not exist fails the whole batch; a set
\* writes whether or not the document exists.
BatchAppliesCreateOnly(st, writes) ==
  \A i \in 1..Len(writes) :
     IF writes[i].op = "update" THEN writes[i].ref \in DOMAIN st
     ELSE writes[i].ref \notin DOMAIN st
BatchApplies(st, writes) ==
  \A i \in 1..Len(writes) : writes[i].op = "update" => writes[i].ref \in DOMAIN st

\* ------------------------------------------------------------ course mapper
\* String.prototype.includes
Includes(s, sub) ==
  \E i \in 0..(Len(s) - Len(sub)) : SubSeq(s, i + 1, i + Len(sub)) = sub

\* isAssociatesProgram of AssociatesProgram.js
isAssociatesProgram(courseName) ==
  /\ courseName # <<>>
  /\ LET name == ToLowerCase(courseName) IN
       \/ Includes(name, <<"a", "s", "s", "o", "c", "i", "a", "t", "e", "s">>)
       \/ Includes(name, <<"a", "s", "s", "o", "c", "i", "a", "t", "e", "'", "s">>)
       \/ Includes(name, <<"p", "r", "o", "g", "r", "a", "m">>)

\* isPropheticGuidance of PropheticGuidance.js
isPropheticGuidance(courseName) ==
  /\ courseName # <<>>
  /\ LET name == ToLowerCase(courseName) IN
       \/ Includes(name, <<"p", "r", "o", "p", "h", "e", "t", "i", "c">>)
       \/ Includes(name, <<"g", "u", "i", "d", "a", "n", "c", "e">>)
       \/ Includes(name, <<"p", "r", "o", "p", "h", "e", "t", "i", "c", " ",
                            "g", "u", "i", "d", "a", "n", "c", "e">>)

\* Product names of the shop: the two programs under the names the builders
\* know, one program under a longer name, a name with keywords of both
\* programs, and merchandise.
NameAssociates ==
  <<"A", "s", "s", "o", "c", "i", "a", "t", "e",
     "s", " ", "P", "r", "o", "g", "r", "a", "m">>
NameAssociatesOnline ==
  <<"A", "s", "s", "o", "c", "i", "a", "t", "e", "s", " ", "P",
     "r", "o", "g", "r", "a", "m", " ", "O", "n", "l", "i", "n", "e">>
NameGuidance ==
  <<"P", "r", "o", "p", "h", "e", "t", "i", "c",
     " ", "G", "u", "i", "d", "a", "n", "c", "e">>
NameGuidanceProgram ==
  <<"G", "u", "i", "d", "a", "n", "c", "e",
     " ", "P", "r", "o", "g", "r", "a", "m">>
NameTote == <<"T", "o", "t", "e", " ", "B", "a", "g">>

\* String.prototype.toLowerCase on the option names and customization labels.
LowerWord(w) ==
  CASE w = "Plan" -> "plan"
    [] w = "PLAN" -> "plan"
    [] w = "Section" -> "section"
    [] w = "Name" -> "name"
    [] w = "Email" -> "email"
    [] w = "EMAIL" -> "email"
    [] OTHER -> w

\* getVariantOption: the value of the first option of that name, letter case
\* ignored, else "".
RECURSIVE getVariantOption(_, _)
getVariantOption(options, key) ==
  IF options = <<>> THEN ""
  ELSE IF LowerWord(Head(options).optionName) = LowerWord(key)
       THEN Head(options).value
       ELSE getVariantOption(Tail(options), key)

\* Object.fromEntries(item.customizations.map(c => [c.label, c.value]))[label]:
\* the value of the last pair with exactly that label; `undef` when none has it.
FromEntries(customizations, label, undef) ==
  LET at == { i \in 1..Len(customizations) : customizations[i].label = label } IN
  IF at = {} THEN undef
  ELSE customizations[CHOOSE i \in at : \A j \in at : j <= i].value

\* getCustomization of PropheticGuidance.js: the value of the first pair
\* whose label is that label, letter case ignored, else "".
RECURSIVE getCustomization(_, _, _)
getCustomization(customizations, label, empty) ==
  IF customizations = <<>> THEN empty
  ELSE IF LowerWord(Head(customizations).label) = LowerWord(label)
       THEN Head(customizations).value
       ELSE getCustomization(Tail(customizations), label, empty)

\* fullName.split(" ")[0] and fullName.split(" ").slice(1).join(" ")
FirstSpace(s) ==
  IF \E i \in 1..Len(s) : s[i] = " "
  THEN CHOOSE i \in 1..Len(s) : s[i] = " " /\ \A j \in 1..(i - 1) : s[j] # " "
  ELSE Len(s) + 1

FirstName(fullName) == SubSeq(fullName, 1, FirstSpace(fullName) - 1)
LastName(fullName) == SubSeq(fullName, FirstSpace(fullName) + 1, Len(fullName))

\* createSingleStudentModel of AssociatesProgram.js
createSingleStudentModel(order, item) ==
  LET fullName == FromEntries(item.customizations, "Name", <<>>) IN
  AssociatesRecord(order.id \o "-" \o item.id, order.orderNumber,
                   getVariantOption(item.variantOptions, "Section"),
                   getVariantOption(item.variantOptions, "Plan"),
                   StudentInfo(FirstName(fullName), LastName(fullName),
                               FromEntries(item.customizations, "Email", <<>>),
                               FromEntries(item.customizations,
                                           "Student Account Password", "")))

\* createSingleStudentModel of PropheticGuidance.js
createSingleGuidanceModel(order, item) ==
  LET fullName == getCustomization(item.customizations, "Name", <<>>) IN
  GuidanceRecord(order.id \o "-" \o item.id, order.orderNumber,
                 getVariantOption(item.variantOptions, "Section"),
                 getVariantOption(item.variantOptions, "Plan"),
                 StudentInfo(FirstName(fullName), LastName(fullName),
                             getCustomization(item.customizations, "Email", <<>>),
                             getCustomization(item.customizations,
                                              "Student Account Password", "")))

\* createAssociatesProgramModel: one model per SERVICE line item whose
\* product name is "Associates Program".
createAssociatesProgramModel(order) ==
  LET serviceItems ==
        SelectSeq(order.lineItems,
                  LAMBDA item : item.lineItemType = "SERVICE"
                                /\ item.productName = NameAssociates)
  IN  [i \in 1..Len(serviceItems) |-> createSingleStudentModel(order, serviceItems[i])]

\* createPropheticGuidanceModel: one model per SERVICE line item whose
\* product name is "Prophetic Guidance".
createPropheticGuidanceModel(order) ==
  LET serviceItems ==
        SelectSeq(order.lineItems,
                  LAMBDA item : item.lineItemType = "SERVICE"
                                /\ item.productName = NameGuidance)
  IN  [i \in 1..Len(serviceItems) |-> createSingleGuidanceModel(order, serviceItems[i])]

\* How a call of mapCourseToModel ends: it returns null or an array, or it
\* throws.
Null == [kind |-> "null", value |-> <<>>]
Array(value) == [kind |-> "array", value |-> value]
Thrown == [kind |-> "thrown", value |-> <<>>]

\* A null entry of a lineItems list: reading a property of it is a TypeError.
NullItem ==
  [id |-> "", lineItemType |-> "", productName |-> <<>>,
   hasCustomizations |-> FALSE, customizations |-> <<>>, variantOptions |-> <<>>]

\* createSingleStudentModel calls item.customizations.map (Associates) or
\* customizations.find (Guidance): a TypeError on a line item that carries
\* no customizations list.
SingleModelThrows(item) == ~item.hasCustomizations

\* serviceItems.map(item => createSingleStudentModel(order, item)) throws when
\* one of the items the builder kept does.
BuilderThrows(order, productName) ==
  \E i \in 1..Len(order.lineItems) :
     /\ order.lineItems[i].lineItemType = "SERVICE"
     /\ order.lineItems[i].productName = productName
     /\ SingleModelThrows(order.lineItems[i])

\* The line items mapCourseToModel groups: SERVICE ones with a product name.
Groupable(item) == item.lineItemType = "SERVICE" /\ item.productName # <<>>

\* Object.keys(coursesByType): the product names in order of first appearance.
RECURSIVE ProductNamesFrom(_, _)
ProductNamesFrom(items, acc) ==
  IF items = <<>> THEN acc
  ELSE LET item == Head(items) IN
       IF Groupable(item) /\ ~(\E i \in 1..Len(acc) : acc[i] = item.productName)
       THEN ProductNamesFrom(Tail(items), Append(acc, item.productName))
       ELSE ProductNamesFrom(Tail(items), acc)

\* The try block of one iteration of the for-of over
\* Object.entries(coursesByType): the group's line items go to the builder its
\* name classifies to; a name that matches no classifier hits `continue`.
\* `threw` tells that the builder threw, `value` what the block pushed to
\* allMappedCourses.
BuildGroup(order, courseName) ==
  LET items == SelectSeq(order.lineItems,
                         LAMBDA item : Groupable(item) /\ item.productName = courseName)
      courseOrder == [order EXCEPT !.lineItems = items]
  IN  IF isAssociatesProgram(courseName)
      THEN IF BuilderThrows(courseOrder, NameAssociates)
           THEN [threw |-> TRUE, value |-> <<>>]
           ELSE [threw |-> FALSE, value |-> createAssociatesProgramModel(courseOrder)]
      ELSE IF isPropheticGuidance(courseName)
      THEN IF BuilderThrows(courseOrder, NameGuidance)
           THEN [threw |-> TRUE, value |-> <<>>]
           ELSE [threw |-> FALSE, value |-> createPropheticGuidanceModel(courseOrder)]
      ELSE [threw |-> FALSE, value |-> <<>>]

\* The catch of that iteration: the error is logged, the loop goes on.
CatchGroupRethrow(outcome) == outcome
CatchGroup(outcome) ==
  IF outcome.threw THEN [threw |-> FALSE, value |-> <<>>] ELSE outcome

MapGroup(order, courseName) == CatchGroup(BuildGroup(order, courseName))

\* The whole loop: an error that leaves an iteration ends it; otherwise
\* allMappedCourses collects the groups' records in group order.
RECURSIVE MapGroups(_, _)
MapGroups(order, names) ==
  IF names = <<>> THEN [threw |-> FALSE, value |-> <<>>]
  ELSE LET head == MapGroup(order, Head(names)) IN
       IF head.threw THEN head
       ELSE LET rest == MapGroups(order, Tail(names)) IN
            IF rest.threw THEN rest
            ELSE [threw |-> FALSE, value |-> head.value \o rest.value]

\* mapCourseToModel of courseMapper.js.  The grouping forEach reads
\* item.lineItemType outside any try.
mapCourseToModel(order) ==
  IF ~order.hasLineItems \/ Len(order.lineItems) = 0
  THEN Null
  ELSE IF \E i \in 1..Len(order.lineItems) : order.lineItems[i] = NullItem
  THEN Thrown
  ELSE LET all == MapGroups(order, ProductNamesFrom(order.lineItems, <<>>)) IN
       IF all.threw THEN Thrown ELSE Array(all.value)

\* Line items and orders as the order source delivers them.
Pair(label, value) == [label |-> label, value |-> value]
Option(optionName, value) == [optionName |-> optionName, value |-> value]

LineItemWith(id, type, name, customizations, section, plan) ==
  [id |-> id, lineItemType |-> type, productName |-> name,
   hasCustomizations |-> TRUE, customizations |-> customizations,
   variantOptions |-> << Option("Plan", plan), Option("Section", section) >>]

LineItem(id, type, name, email, section, plan) ==
  LineItemWith(id, type, name,
               << Pair("Name", <<"A", "m", " ", "K">>), Pair("Email", email) >>,
               section, plan)

\* A line item of a product sold without a form: customizations is null.
WithoutForm(item) ==
  [item EXCEPT !.hasCustomizations = FALSE, !.customizations = <<>>]

\* The names and the address of the students on the forms.
NameAminaKhan == <<"A", "m", "i", "n", "a", " ", "K", "h", "a", "n">>
NameWithTab == <<"A", "m", "\t", "K">>
EmailAmina ==
  <<"a", "m", "i", "n", "a", "@", "e", "x", "a", "m", "p", "l", "e", ".", "c", "o", "m">>

\* An enrollment in the Associates Program: Name "Amina Khan", Email
\* "amina@example.com", Plan "Full", Section "Year 1".
ItemAmina ==
  LineItemWith("A", "SERVICE", NameAssociates,
               << Pair("Name", NameAminaKhan), Pair("Email", EmailAmina) >>,
               "Year 1", "Full")

\* The same enrollment with a tab between the two names.
ItemTabName ==
  LineItemWith("B", "SERVICE", NameAssociates,
               << Pair("Name", NameWithTab), Pair("Email", EmailAmina) >>,
               "Year 1", "Full")

\* Forms with two fields labelled Email, with the label in capitals, and with
\* blanks around the label.
ItemTwoEmails ==
  LineItemWith("C", "SERVICE", NameAssociates,
               << Pair("Name", NameAminaKhan), Pair("Email", EmailA),
                  Pair("Email", EmailB) >>,
               "Year 1", "Full")
ItemTwoEmailsGuidance ==
  LineItemWith("D", "SERVICE", NameGuidance,
               << Pair("Name", NameAminaKhan), Pair("Email", EmailA),
                  Pair("Email", EmailB) >>,
               "Module 1", "Full")
ItemUpperLabel ==
  LineItemWith("E", "SERVICE", NameAssociates,
               << Pair("Name", NameAminaKhan), Pair("EMAIL", EmailB) >>,
               "Year 1", "Full")
ItemPaddedLabel ==
  LineItemWith("F", "SERVICE", NameGuidance,
               << Pair("Name", NameAminaKhan), Pair(" Email ", EmailB) >>,
               "Module 1", "Full")

\* A variant option value with a trailing blank.
ItemPaddedSection ==
  LineItemWith("G", "SERVICE", NameAssociates,
               << Pair("Name", NameAminaKhan), Pair("Email", EmailB) >>,
               "Year 1 ", "Full")

\* An Associates Program item without a form.
ItemWithoutForm ==
  WithoutForm(LineItem("H", "SERVICE", NameAssociates, NoEmail, "Year 1", "Full"))

LineItems ==
  { ItemAmina, ItemTabName, ItemTwoEmails, ItemTwoEmailsGuidance, ItemUpperLabel,
    ItemPaddedLabel, ItemPaddedSection, ItemWithoutForm, NullItem,
    LineItem("1", "SERVICE", NameAssociates, EmailA, "Year 1", "Full"),
    LineItem("2", "SERVICE", NameAssociates, EmailB, "Year 1", "Monthly"),
    LineItem("3", "SERVICE", NameAssociatesOnline, EmailA, "Year 1", "Full"),
    LineItem("4", "SERVICE", NameGuidance, EmailAUpper, "Module 1", "Full"),
    LineItem("5", "SERVICE", NameGuidanceProgram, EmailB, "Module 1", "Full"),
    LineItem("6", "SERVICE", NameTote, EmailA, "", ""),
    LineItem("7", "PHYSICAL", NameAssociates, EmailA, "", ""),
    LineItem("8", "SERVICE", <<>>, EmailB, "Year 1", "Full") }

\* The orders handed to the mapper: without a lineItems list, or with up to
\* MaxItems different line items.
Orders ==
  { [id |-> "O9", orderNumber |-> "9", hasLineItems |-> FALSE, lineItems |-> <<>>] }
  \cup
  { [id |-> "O9", orderNumber |-> "9", hasLineItems |-> TRUE, lineItems |-> items] :
      items \in { f \in UNION { [1..n -> LineItems] : n \in 0..MaxItems } :
                    \A i, j \in DOMAIN f : i # j => f[i] # f[j] } }

\* ------------------------------------------------------------------- state
VARIABLES
  store,      \* authorizedUsers: document id -> document
  authUsers,  \* emails with a Firebase Authentication user
  created,    \* createUser requests made: [email, password]
  welcomed,   \* sendWelcomeEmail dispatches: [email, password]
  run,        \* per trigger: the pipeline run in flight, if any
  last,       \* the summary of the run that finished most recently
  nruns,      \* runs started so far
  nfaults,    \* collaborator failures so far
  clock,      \* the store's server time
  window,     \* the feed positions <<from, to>> of the latest fetch
  mail,       \* per student email: how the latest sendWelcomeEmail promise stands
  order,      \* the order handed to mapCourseToModel
  mapped,     \* what mapCourseToModel returned for it
  orders,     \* the orders handed to processOrderData
  processed,  \* what processOrderData returned for them
  minute,     \* the wall clock, in minutes since the scheduler started
  fetched,    \* the time windows <<modifiedAfter, modifiedBefore>> the timer's runs fetched
  modifiedAt  \* the minutes at which an order was modified

vars == <<store, authUsers, created, welcomed, run, last, nruns, nfaults, clock,
          window, mail, order, mapped, orders, processed,
               minute, fetched, modifiedAt>>

\* The cron callback and the POST /trigger-sync handler of index.js.
Triggers == {"timer", "manual"}

\* No call of the mapper yet.
NoOrder == [id |-> "", orderNumber |-> "", hasLineItems |-> FALSE, lineItems |-> <<>>]
NotMapped == [kind |-> "none", value |-> <<>>]

\* No call of processOrderData yet.
NotProcessed == [kind |-> "none", value |-> <<>>]

\* A run's variables: `trigger` who started it, `commits` the batch.commit
\* calls it made, `auths` the createUser answers it got, `response` what its
\* trigger did with its outcome (empty until it has finished).
Idle ==
  [pc |-> "idle", recs |-> <<>>, i |-> 0, batch |-> <<>>, successCount |-> 0,
   seen |-> <<>>, before |-> << >>, trigger |-> "", commits |-> 0,
   auths |-> <<>>, response |-> ""]

Init ==
  /\ store = << >>
  /\ authUsers = {}
  /\ created = {}
  /\ welcomed = {}
  /\ run = [t \in Triggers |-> Idle]
  /\ last = [Idle EXCEPT !.pc = "none"]
  /\ nruns = 0
  /\ nfaults = 0
  /\ clock = 0
  /\ window = <<1, 0>>
  /\ mail = << >>
  /\ order = NoOrder
  /\ mapped = NotMapped
  /\ orders = <<>>
  /\ processed = NotProcessed
  /\ minute = 0
  /\ fetched = {}
  /\ modifiedAt = {}

\* runScheduledTask and saveToFirestore log and rethrow what their try blocks
\* catch: a run that ended on a fetch or a commit error threw to its trigger.
ThrewFetchOnly(status) == status = "fetch_error"
Threw(status) == status \in {"fetch_error", "commit_error"}

\* What the trigger does when runScheduledTask settles.  POST /trigger-sync
\* answers 200 or, from its catch, 500; the cron callback logs either way.
TriggerResponseAlwaysOk(t, status) ==
  IF t = "manual" THEN "200" ELSE "logged_ok"
TriggerResponse(t, status) ==
  IF t = "manual"
  THEN IF Threw(status) THEN "500" ELSE "200"
  ELSE IF Threw(status) THEN "logged_error" ELSE "logged_ok"

\* What a finished run leaves behind: its own variables at its last step,
\* with pc naming how it ended ("ok" when saveToFirestore returned
\* successCount) and `before` the store that last step found.
Summary(r, status, before) ==
  [pc |-> status, recs |-> r.recs, i |-> r.i, batch |-> r.batch,
   successCount |-> r.successCount, seen |-> r.seen, before |-> before,
   trigger |-> r.trigger, commits |-> r.commits, auths |-> r.auths,
   response |-> TriggerResponse(r.trigger, status)]

\* The end of one for-of iteration: on to the next email, or to batch.commit.
NextUser(r) ==
  IF r.i < Len(GroupKeys(r.recs))
  THEN [r EXCEPT !.i = @ + 1, !.pc = "lookup"]
  ELSE [r EXCEPT !.pc = "commit"]

\* runScheduledTask up to the first store round trip: the orders are fetched
\* and mapped; with no record saveToFirestore is not called; otherwise it
\* groups the records and issues the first lookup (or the commit when every
\* record was skipped).
StartRun(t) ==
  /\ run[t].pc = "idle"
  /\ nruns < MaxRuns
  /\ nruns' = nruns + 1
  /\ \E w \in WindowsAfter(window) :
        LET recs == SubSeq(Feed, w[1], w[2])
            r    == [Idle EXCEPT !.recs = recs, !.trigger = t]
        IN
        /\ window' = w
        /\ IF recs = <<>>
           THEN /\ last' = Summary(r, "nothing", store)
                /\ run' = run
           ELSE /\ run' = [run EXCEPT ![t] = NextUser(r)]
                /\ last' = last
  /\ UNCHANGED <<store, authUsers, created, welcomed, nfaults, clock, mail,
               order, mapped, orders, processed,
               minute, fetched, modifiedAt>>

\* fetchSquarespaceOrders throws: runScheduledTask rethrows.
FetchFail(t) ==
  /\ run[t].pc = "idle"
  /\ nruns < MaxRuns
  /\ nfaults < MaxFaults
  /\ nruns' = nruns + 1
  /\ nfaults' = nfaults + 1
  /\ last' = Summary([Idle EXCEPT !.trigger = t], "fetch_error", store)
  /\ UNCHANGED <<store, authUsers, created, welcomed, run, clock, window, mail,
               order, mapped, orders, processed,
               minute, fetched, modifiedAt>>

\* The existence query answers.  For a stored student the whole existing-user
\* branch runs; for an unknown one the code goes on to createUser.
Lookup(t) ==
  LET r     == run[t]
      email == GroupKeys(r.recs)[r.i]
      found == QueryByEmail(store, email)
  IN
  /\ r.pc = "lookup"
  /\ IF found # {}
     THEN \E id \in found :
            LET existingCourses == store[id].courses
                newCourses == NewCourses(CoursesForUser(r.recs, email), existingCourses)
                r1 == [r EXCEPT !.seen = Append(@, [email |-> email, kind |-> "found",
                                                    ref |-> id,
                                                    courses |-> existingCourses])]
            IN
            IF Len(newCourses) > 0
            THEN run' = [run EXCEPT ![t] = NextUser(
                           [r1 EXCEPT !.batch = Append(@, UpdateWrite(id, MapCourseOnly(newCourses))),
                                      !.successCount = @ + Len(newCourses)])]
            ELSE run' = [run EXCEPT ![t] = NextUser(r1)]
     ELSE run' = [run EXCEPT ![t] =
                    [r EXCEPT !.pc = "auth",
                              !.seen = Append(@, [email |-> email, kind |-> "empty",
                                                  ref |-> email,
                                                  courses |-> <<>>])]]
  /\ UNCHANGED <<store, authUsers, created, welcomed, last, nruns, nfaults, clock, window, mail,
               order, mapped, orders, processed,
               minute, fetched, modifiedAt>>

\* The existence query rejects: the per-user catch logs it and the loop goes on.
LookupFail(t) ==
  LET r     == run[t]
      email == GroupKeys(r.recs)[r.i]
  IN
  /\ r.pc = "lookup"
  /\ nfaults < MaxFaults
  /\ nfaults' = nfaults + 1
  /\ run' = [run EXCEPT ![t] =
               NextUser([r EXCEPT !.seen = Append(@, [email |-> email, kind |-> "error",
                                                      ref |-> email,
                                                      courses |-> <<>>])])]
  /\ UNCHANGED <<store, authUsers, created, welcomed, last, nruns, clock, window, mail,
               order, mapped, orders, processed,
               minute, fetched, modifiedAt>>

\* The catch (authError) around createUser: it logs "already exists" as info
\* and anything else as an error, and rethrows neither.
CreateUserCaughtIfExists(outcome) == outcome = "auth/email-already-exists"
CreateUserCaught(outcome) == outcome # "created"

\* The new-user branch from the answer of admin.auth().createUser on: the
\* create is queued and counted and the welcome email is dispatched.  An
\* error the inner catch let through would land in catch (saveError), which
\* logs it and leaves the student without a write.  `outcome` is the
\* provider's answer.
NewUser(t, outcome) ==
  LET r              == run[t]
      email          == GroupKeys(r.recs)[r.i]
      coursesForUser == CoursesForUser(r.recs, email)
      studentInfo    == coursesForUser[1].studentInfo
      courses        == MapCourseOnly(coursesForUser)
  IN
  /\ r.pc = "auth"
  /\ outcome = "created" => email \notin authUsers
  /\ outcome = "auth/email-already-exists" => email \in authUsers
  /\ outcome = "auth/other" => nfaults < MaxFaults
  /\ nfaults' = IF outcome = "auth/other" THEN nfaults + 1 ELSE nfaults
  /\ authUsers' = IF outcome = "created" THEN authUsers \cup {email} ELSE authUsers
  /\ created' = created \cup
        {[email |-> email, password |-> OrElse(studentInfo.password, "uuid8")]}
  /\ IF outcome = "created" \/ CreateUserCaught(outcome)
     THEN /\ welcomed' = welcomed \cup
                {[email |-> studentInfo.email,
                  password |-> OrElse(studentInfo.password, "Your custom password")]}
          /\ mail' = [e \in (DOMAIN mail) \cup {email} |->
                        IF e = email THEN "pending" ELSE mail[e]]
          /\ run' = [run EXCEPT ![t] = NextUser(
                       [r EXCEPT !.batch = Append(@, SetWrite(email,
                                              StudentInfoWithoutPassword(studentInfo, email),
                                              courses)),
                                 !.successCount = @ + Len(courses),
                                 !.auths = Append(@, [email |-> email,
                                                      outcome |-> outcome])])]
     ELSE /\ welcomed' = welcomed
          /\ mail' = mail
          /\ run' = [run EXCEPT ![t] = NextUser(
                       [r EXCEPT !.auths = Append(@, [email |-> email,
                                                      outcome |-> outcome])])]
  /\ UNCHANGED <<store, last, nruns, clock, window,
               order, mapped, orders, processed,
               minute, fetched, modifiedAt>>

\* The welcome emails whose promise the run awaits before batch.commit():
\* none, sendWelcomeEmail(...).then(...).catch(...) is not awaited.
AwaitedDispatched(r) == { r.auths[k].email : k \in 1..Len(r.auths) }
Awaited(r) == {}

\* batch.commit() resolves: every queued write is applied at one server time
\* and saveToFirestore returns successCount.
CommitOk(t) ==
  LET r == run[t] IN
  /\ r.pc = "commit"
  /\ \A e \in Awaited(r) : mail[e] # "pending"
  /\ BatchApplies(store, r.batch)
  /\ clock' = clock + 1
  /\ store' = ApplyBatch(store, r.batch, clock + 1)
  /\ last' = Summary([r EXCEPT !.commits = @ + 1], "ok", store)
  /\ run' = [run EXCEPT ![t] = Idle]
  /\ UNCHANGED <<authUsers, created, welcomed, nruns, nfaults, window, mail,
               order, mapped, orders, processed,
               minute, fetched, modifiedAt>>

\* batch.commit() rejects: nothing is written and the error is rethrown.
CommitFail(t) ==
  LET r == run[t] IN
  /\ r.pc = "commit"
  /\ nfaults < MaxFaults
  /\ nfaults' = nfaults + 1
  /\ last' = Summary([r EXCEPT !.commits = @ + 1], "commit_error", store)
  /\ run' = [run EXCEPT ![t] = Idle]
  /\ UNCHANGED <<store, authUsers, created, welcomed, nruns, clock, window, mail,
               order, mapped, orders, processed,
               minute, fetched, modifiedAt>>

\* A sendWelcomeEmail promise settles: it resolves true ("sent") or false
\* ("failed"), or rejects ("threw"); the .then and .catch handlers only log.
WelcomeSettles(email, outcome) ==
  /\ email \in DOMAIN mail
  /\ mail[email] = "pending"
  /\ outcome # "sent" => nfaults < MaxFaults
  /\ nfaults' = IF outcome # "sent" THEN nfaults + 1 ELSE nfaults
  /\ mail' = [mail EXCEPT ![email] = outcome]
  /\ UNCHANGED <<store, authUsers, created, welcomed, run, last, nruns, clock, window,
               order, mapped, orders, processed,
               minute, fetched, modifiedAt>>

MailOutcomes == {"sent", "failed", "threw"}

AuthOutcomes == {"created", "auth/email-already-exists", "auth/other"}

Next ==
  \E t \in Triggers :
     \/ StartRun(t)
     \/ FetchFail(t)
     \/ Lookup(t)
     \/ LookupFail(t)
     \/ \E o \in AuthOutcomes : NewUser(t, o)
     \/ CommitOk(t)
     \/ CommitFail(t)

\* The scheduler as written: a timer run and a manual run may overlap.
Spec == Init /\ [][Next]_vars

\* Runs one after another: a run starts only while no other is in flight.
NoRunInFlight == \A t \in Triggers : run[t].pc = "idle"

SeqNext ==
  \E t \in Triggers :
     \/ NoRunInFlight /\ StartRun(t)
     \/ NoRunInFlight /\ FetchFail(t)
     \/ Lookup(t)
     \/ LookupFail(t)
     \/ \E o \in AuthOutcomes : NewUser(t, o)
     \/ CommitOk(t)
     \/ CommitFail(t)

SeqSpec == Init /\ [][SeqNext]_vars

\* Runs one after another, with the welcome emails they dispatched settling
\* at any later time.
MailNext ==
  \/ SeqNext
  \/ \E e \in DOMAIN mail : \E o \in MailOutcomes : WelcomeSettles(e, o)

MailSpec == Init /\ [][MailNext]_vars

\* The course mapper on its own: any order, mapped once.
MapperInit ==
  /\ store = << >>
  /\ authUsers = {}
  /\ created = {}
  /\ welcomed = {}
  /\ run = [t \in Triggers |-> Idle]
  /\ last = [Idle EXCEPT !.pc = "none"]
  /\ nruns = 0
  /\ nfaults = 0
  /\ clock = 0
  /\ window = <<1, 0>>
  /\ mail = << >>
  /\ order \in Orders
  /\ mapped = NotMapped
  /\ orders = <<>>
  /\ processed = NotProcessed
  /\ minute = 0
  /\ fetched = {}
  /\ modifiedAt = {}

MapOrder ==
  /\ mapped = NotMapped
  /\ mapped' = mapCourseToModel(order)
  /\ UNCHANGED <<store, authUsers, created, welcomed, run, last, nruns, nfaults,
                 clock, window, mail, order, orders, processed,
               minute, fetched, modifiedAt>>

MapperSpec == MapperInit /\ [][MapOrder]_vars

\* A document as the earlier saveToFirestore revision left it: under an
\* auto-generated id, with the email in the top-level customerEmail field.
\* Here the document of a student whose studentInfo holds no email.
LegacyId == <<"l", "e", "g", "a", "c", "y">>

LegacyStore ==
  (LegacyId :> [customerEmail |-> EmailA,
                studentInfo |-> [firstName |-> "Amina", lastName |-> "Khan",
                                 email |-> NoEmail],
                courses |-> << CourseOnly(Feed[1]) >>,
                createdAt |-> 0, lastSynced |-> 0])

\* The scheduler started on a collection that holds migration-era data.
LegacyInit ==
  /\ store = LegacyStore
  /\ authUsers = {}
  /\ created = {}
  /\ welcomed = {}
  /\ run = [t \in Triggers |-> Idle]
  /\ last = [Idle EXCEPT !.pc = "none"]
  /\ nruns = 0
  /\ nfaults = 0
  /\ clock = 0
  /\ window = <<1, 0>>
  /\ mail = << >>
  /\ order = NoOrder
  /\ mapped = NotMapped
  /\ orders = <<>>
  /\ processed = NotProcessed
  /\ minute = 0
  /\ fetched = {}
  /\ modifiedAt = {}

LegacySpec == LegacyInit /\ [][SeqNext]_vars

\* ------------------------------------------------------- processOrderData
MaxOrders == 3

\* The try block of the forEach callback of processOrderData for one order:
\* the SERVICE filter (its callback reads item.lineItemType of every entry),
\* the skip of an order without SERVICE items, the call of the mapper and the
\* pushes, of an array's elements or of nothing for null.
ProcessOrder(o) ==
  IF o.hasLineItems /\ \E i \in 1..Len(o.lineItems) : o.lineItems[i] = NullItem
  THEN [threw |-> TRUE, value |-> <<>>]
  ELSE IF ~o.hasLineItems
          \/ SelectSeq(o.lineItems, LAMBDA item : item.lineItemType = "SERVICE") = <<>>
  THEN [threw |-> FALSE, value |-> <<>>]
  ELSE LET result == mapCourseToModel(o) IN
       IF result.kind = "thrown" THEN [threw |-> TRUE, value |-> <<>>]
       ELSE [threw |-> FALSE, value |-> result.value]

\* The catch of the callback logs the order's id and returns.
CatchOrderRethrow(outcome) == outcome
CatchOrder(outcome) ==
  IF outcome.threw THEN [threw |-> FALSE, value |-> <<>>] ELSE outcome

\* orders.forEach: the records of the orders in order, unless a callback
\* throws.
RECURSIVE ForEachOrder(_)
ForEachOrder(os) ==
  IF os = <<>> THEN [threw |-> FALSE, value |-> <<>>]
  ELSE LET head == CatchOrder(ProcessOrder(Head(os))) IN
       IF head.threw THEN head
       ELSE LET rest == ForEachOrder(Tail(os)) IN
            IF rest.threw THEN rest
            ELSE [threw |-> FALSE, value |-> head.value \o rest.value]

\* processOrderData of dataProcessor.js: [] for no orders; what escapes the
\* forEach is rethrown as "Failed to process order data".
processOrderData(os) ==
  IF os = <<>> THEN Array(<<>>)
  ELSE LET all == ForEachOrder(os) IN
       IF all.threw THEN Thrown ELSE Array(all.value)

\* Orders handed to processOrderData, each with its own id: two enrollments,
\* an order of two students, an order with a null entry after its SERVICE
\* item, one whose first group has no form, and the two the function guards
\* against itself: merchandise only, and no lineItems list.
Order(id, items) ==
  [id |-> id, orderNumber |-> id, hasLineItems |-> TRUE, lineItems |-> items]

InputOrders ==
  { Order("O1", << ItemAmina >>),
    Order("O2", << LineItem("4", "SERVICE", NameGuidance, EmailAUpper, "Module 1", "Full") >>),
    Order("O3", << LineItem("1", "SERVICE", NameAssociates, EmailA, "Year 1", "Full"),
                   LineItem("2", "SERVICE", NameAssociates, EmailB, "Year 1", "Monthly") >>),
    Order("O4", << ItemAmina, NullItem >>),
    Order("O5", << ItemWithoutForm, ItemTwoEmailsGuidance >>),
    Order("O6", << LineItem("7", "PHYSICAL", NameAssociates, EmailA, "", "") >>),
    [Order("O7", <<>>) EXCEPT !.hasLineItems = FALSE] }

ProcessInit ==
  /\ store = << >>
  /\ authUsers = {}
  /\ created = {}
  /\ welcomed = {}
  /\ run = [t \in Triggers |-> Idle]
  /\ last = [Idle EXCEPT !.pc = "none"]
  /\ nruns = 0
  /\ nfaults = 0
  /\ clock = 0
  /\ window = <<1, 0>>
  /\ mail = << >>
  /\ order = NoOrder
  /\ mapped = NotMapped
  /\ orders \in UNION { [1..n -> InputOrders] : n \in 0..MaxOrders }
  /\ processed = NotProcessed
  /\ minute = 0
  /\ fetched = {}
  /\ modifiedAt = {}

ProcessOrders ==
  /\ processed = NotProcessed
  /\ processed' = processOrderData(orders)
  /\ UNCHANGED <<store, authUsers, created, welcomed, run, last, nruns, nfaults,
                 clock, window, mail, order, mapped, orders,
                 minute, fetched, modifiedAt>>

ProcessSpec == ProcessInit /\ [][ProcessOrders]_vars

\* ------------------------------------------------------ the timer's windows
\* cron.schedule("*/15 * * * *", ...): the timer fires at the minutes that are
\* multiples of 15.
CronInterval == 15

\* fetchSquarespaceOrders(timeConfig = 6): the lookback, in minutes, of a run
\* started without a time configuration, as the timer's runs are.
Lookback == 6

MaxMinutes == 45
MaxMods == 2

\* The cron callback calls runScheduledTask(), which calls
\* fetchSquarespaceOrders(): modifiedAfter = now - lookback, modifiedBefore = now.
TimerDue == minute % CronInterval = 0 /\ \A w \in fetched : w[2] # minute

TimerFires ==
  /\ TimerDue
  /\ fetched' = fetched \cup { <<minute - Lookback, minute>> }
  /\ UNCHANGED <<store, authUsers, created, welcomed, run, last, nruns, nfaults,
                 clock, window, mail, order, mapped, orders, processed,
                 minute, modifiedAt>>

\* A customer or the shop changes an order.
OrderModified ==
  /\ Cardinality(modifiedAt) < MaxMods
  /\ minute \notin modifiedAt
  /\ modifiedAt' = modifiedAt \cup {minute}
  /\ UNCHANGED <<store, authUsers, created, welcomed, run, last, nruns, nfaults,
                 clock, window, mail, order, mapped, orders, processed,
                 minute, fetched>>

\* A minute passes; the timer does not miss its minute.
Tick ==
  /\ minute < MaxMinutes
  /\ ~TimerDue
  /\ minute' = minute + 1
  /\ UNCHANGED <<store, authUsers, created, welcomed, run, last, nruns, nfaults,
                 clock, window, mail, order, mapped, orders, processed,
                 fetched, modifiedAt>>

TimerNext == TimerFires \/ OrderModified \/ Tick

TimerSpec == Init /\ [][TimerNext]_vars

\* ------------------------------------------------------- claim vocabulary
\* The identity of a course record in the data model: (courseType,
\* courseName, section, plan).
SectionOf(c) ==
  IF c.courseType = "AssociatesProgram" THEN c.placementInfo.section
  ELSE c.guidanceDetails.section

PlanOf(c) ==
  IF c.courseType = "AssociatesProgram" THEN c.placementInfo.plan
  ELSE c.guidanceDetails.plan

IdentityKey(c) == <<c.courseType, c.courseName, SectionOf(c), PlanOf(c)>>

\* Every lookup of the run was answered.
FaultFree(r) == \A k \in 1..Len(r.seen) : r.seen[k].kind # "error"

\* The normalized emails of the records that carry one.
NormalizedEmails(recs) ==
  { NormalizeEmail(recs[k].studentInfo.email) :
      k \in { j \in 1..Len(recs) : recs[j].studentInfo.email # NoEmail } }

InFlight(t) == run[t].pc # "idle"

\* The run of t stands before batch.commit and repeats, lookup for lookup
\* answered, the records of the run that committed last, which started on an
\* empty store.
RepeatsFirstRun(t) ==
  /\ run[t].pc = "commit"
  /\ FaultFree(run[t])
  /\ last.pc = "ok"
  /\ last.before = << >>
  /\ FaultFree(last)
  /\ last.recs = run[t].recs

\* C1  Idempotence.  With runs one after another and every lookup answered: a
\* run that commits on an empty store creates exactly one document per
\* normalized email of its records, one create-write each; a following run on
\* the same records reaches its commit with no write queued and successCount
\* 0, and its commit leaves the store as it is.
C1_Idempotence ==
  /\ (last.pc = "ok" /\ last.before = << >> /\ FaultFree(last)) =>
        /\ DOMAIN store = NormalizedEmails(last.recs)
        /\ Len(last.batch) = Cardinality(NormalizedEmails(last.recs))
        /\ \A k \in 1..Len(last.batch) : last.batch[k].op = "set"
  /\ \A t \in Triggers :
        RepeatsFirstRun(t) =>
           /\ run[t].batch = <<>>
           /\ run[t].successCount = 0
           /\ ApplyBatch(store, run[t].batch, clock + 1) = store

\* A repeat of a first run that created two students stands before its commit.
C1_Witness ==
  \E t \in Triggers :
     /\ RepeatsFirstRun(t)
     /\ Cardinality(DOMAIN store) = 2
     /\ Len(run[t].seen) = 2

\* C3  Password stripping.  No stored document has a password field in its
\* studentInfo, and no stored course record carries a studentInfo or a
\* password, whether the document was created or appended to.
C3_NoPasswordStored ==
  \A id \in DOMAIN store :
     /\ "password" \notin DOMAIN store[id].studentInfo
     /\ \A k \in 1..Len(store[id].courses) :
           /\ "password" \notin DOMAIN store[id].courses[k]
           /\ "studentInfo" \notin DOMAIN store[id].courses[k]

\* A document created from a record with a password and later appended to
\* from another record with a password.
C3_Witness ==
  \E id \in DOMAIN store :
     /\ store[id].createdAt < store[id].lastSynced
     /\ Len(store[id].courses) = 2
     /\ store[id].courses[1].courseId = "O1-1"
     /\ store[id].courses[2].courseId = "O3-1"

\* C2  Dedup identity.  No stored document holds two course records with the
\* same identity key (courseType, courseName, section, plan).
C2_NoDuplicateIdentity ==
  \A id \in DOMAIN store :
     \A i, j \in 1..Len(store[id].courses) :
        i # j => IdentityKey(store[id].courses[i]) # IdentityKey(store[id].courses[j])

\* The stored document of `email` holds a course with the identity of `rec`.
HoldsCourseOf(st, email, rec) ==
  /\ email \in DOMAIN st
  /\ \E k \in 1..Len(st[email].courses) :
        IdentityKey(st[email].courses[k]) = IdentityKey(rec)

\* C4  Email normalization.  With runs one after another: no two documents
\* share a lowercase-trimmed email, and once a run has committed with every
\* lookup answered, the document of each of its well-formed emails holds a
\* course for the identity key of each record of that email.
C4_OneDocumentAllCourses ==
  /\ \A a, b \in DOMAIN store :
        NormalizeEmail(store[a].studentInfo.email)
          = NormalizeEmail(store[b].studentInfo.email) => a = b
  /\ (last.pc = "ok" /\ FaultFree(last)) =>
        \A k \in 1..Len(last.recs) :
           EmailRegexTest(last.recs[k].studentInfo.email) =>
              HoldsCourseOf(store, NormalizeEmail(last.recs[k].studentInfo.email),
                            last.recs[k])

\* C5  Email validation.  A record whose email is not of the shape
\* local@domain.tld leaves no document, no createUser request and no welcome
\* email.
C5_MalformedEmailDropped ==
  /\ \A id \in DOMAIN store : EmailRegexTest(store[id].studentInfo.email)
  /\ \A c \in created : EmailRegexTest(c.email)
  /\ \A w \in welcomed : EmailRegexTest(w.email)

\* C6  Single-flight.  At no time are two runs both between their first
\* existence lookup and their batch commit.
C6_SingleFlight == Cardinality({ t \in Triggers : InFlight(t) }) <= 1

\* The records of `email` that the append rule of the data model lets through:
\* those whose identity key is the key of no course of the document.
AppendableByIdentity(coursesForUser, existingCourses) ==
  SelectSeq(coursesForUser,
            LAMBDA c : \A i \in 1..Len(existingCourses) :
                          IdentityKey(existingCourses[i]) # IdentityKey(c))

WritesTo(batch, ref) == SelectSeq(batch, LAMBDA w : w.ref = ref)

\* C8  Append rule.  For each email whose lookup found a document, the run
\* queues an arrayUnion of exactly the incoming records whose identity key is
\* the key of no course on the document, and nothing when there is none.
C8_AppendRule ==
  \A t \in Triggers : \A k \in 1..Len(run[t].seen) :
     LET s        == run[t].seen[k]
         expected == AppendableByIdentity(CoursesForUser(run[t].recs, s.email), s.courses)
     IN
     s.kind = "found" =>
        WritesTo(run[t].batch, s.ref) =
           IF expected = <<>> THEN <<>>
           ELSE << UpdateWrite(s.ref, MapCourseOnly(expected)) >>

\* The courses of document id in `after` that `before` did not hold.
NewIn(before, after, id) ==
  Cardinality({ k \in 1..Len(after[id].courses) :
                  \/ id \notin DOMAIN before
                  \/ \A j \in 1..Len(before[id].courses) :
                        before[id].courses[j] # after[id].courses[k] })

RECURSIVE CoursesAddedIn(_, _, _)
CoursesAddedIn(ids, before, after) ==
  IF ids = {} THEN 0
  ELSE LET id == CHOOSE x \in ids : TRUE IN
       NewIn(before, after, id) + CoursesAddedIn(ids \ {id}, before, after)

CoursesAdded(before, after) == CoursesAddedIn(DOMAIN after, before, after)

\* C9  Returned count.  The successCount a run returns is the number of course
\* records its commit added to the store.
C9_ReturnedCount ==
  last.pc = "ok" => last.successCount = CoursesAdded(last.before, store)

\* C10  Monotonic store.  A commit removes no document and no course: every
\* document it found is still there with every course it had.
C10_StoreOnlyGrows ==
  last.pc = "ok" =>
     \A id \in DOMAIN last.before :
        /\ id \in DOMAIN store
        /\ \A j \in 1..Len(last.before[id].courses) :
              \E k \in 1..Len(store[id].courses) :
                 store[id].courses[k] = last.before[id].courses[j]

\* Two overlapping runs raced on the email of run[t].seen[k]: the run of t
\* stands before its commit with a write for that document, queued on a
\* lookup answer that the run which committed last also got and wrote on.
Raced(t, k) ==
  /\ run[t].pc = "commit"
  /\ last.pc = "ok"
  /\ k \in 1..Len(run[t].seen)
  /\ run[t].seen[k].kind # "error"
  /\ \E j \in 1..Len(last.seen) : last.seen[j] = run[t].seen[k]
  /\ WritesTo(run[t].batch, run[t].seen[k].ref) # <<>>
  /\ WritesTo(last.batch, run[t].seen[k].ref) # <<>>

HasCourse(courses, c) == \E i \in 1..Len(courses) : courses[i] = c

\* The store after the commit of the run of t.
AfterCommit(t) == ApplyBatch(store, run[t].batch, clock + 1)

\* The commit of t loses a course of document ref: one stored before it, or
\* one it queued, is not on the document after it.
DropsCourse(t, ref) ==
  \/ \E i \in 1..Len(store[ref].courses) :
        ~HasCourse(AfterCommit(t)[ref].courses, store[ref].courses[i])
  \/ \E i \in 1..Len(WritesTo(run[t].batch, ref)[1].courses) :
        ~HasCourse(AfterCommit(t)[ref].courses, WritesTo(run[t].batch, ref)[1].courses[i])

\* C7 as stated.  Whenever two runs raced on an email, the later commit either
\* fails on the duplicate document or drops a course from it.
C7_FailureOrDrop ==
  \A t \in Triggers : \A k \in 1..Len(run[t].seen) :
     Raced(t, k) =>
        \/ ~BatchApplies(store, run[t].batch)
        \/ DropsCourse(t, run[t].seen[k].ref)

\* C7  Cross-run race, as the code behaves.  When two runs raced on an email
\* the later commit is never rejected for the document existing.  If both
\* read "no document" the later create replaces the document, which then
\* holds the later run's courses only; if both read the same course list both
\* appends are applied and no course is lost.
C7_RaceOutcome ==
  \A t \in Triggers : \A k \in 1..Len(run[t].seen) :
     Raced(t, k) =>
        LET ref == run[t].seen[k].ref
            w   == WritesTo(run[t].batch, ref)[1]
        IN
        /\ BatchApplies(store, run[t].batch)
        /\ IF run[t].seen[k].kind = "empty"
           THEN /\ w.op = "set"
                /\ AfterCommit(t)[ref].courses = w.courses
           ELSE /\ w.op = "update"
                /\ ~DropsCourse(t, ref)

\* A run before its commit that raced on one email with a create and on
\* another with an append.
C7_Witness ==
  \E t \in Triggers : \E k1, k2 \in 1..Len(run[t].seen) :
     /\ Raced(t, k1) /\ run[t].seen[k1].kind = "empty"
     /\ Raced(t, k2) /\ run[t].seen[k2].kind = "found"

\* A raced create about to replace a document that holds another course.
RacedCreateDrops ==
  \E t \in Triggers : \E k \in 1..Len(run[t].seen) :
     /\ Raced(t, k) /\ run[t].seen[k].kind = "empty"
     /\ DropsCourse(t, run[t].seen[k].ref)

\* C11  Commit failure.  A run whose batch.commit was rejected threw to its
\* trigger after that one commit call: the store is as that commit found it,
\* with none of the queued writes applied, and the trigger saw the error, the
\* manual one answering 500.
C11_CommitFailureFatal ==
  last.pc = "commit_error" =>
     /\ last.commits = 1
     /\ store = last.before
     /\ last.response \in {"500", "logged_error"}
     /\ last.trigger = "manual" => last.response = "500"

\* A manual run with a create and an append queued whose commit was rejected.
C11_Witness ==
  /\ last.pc = "commit_error"
  /\ last.trigger = "manual"
  /\ \E i, j \in 1..Len(last.batch) :
        last.batch[i].op = "set" /\ last.batch[j].op = "update"

\* C12  Lookup failure.  A run one of whose existence lookups was rejected
\* does not finish as a success: it ends in an error that its trigger sees.
C12_LookupFailureFatal ==
  (\E k \in 1..Len(last.seen) : last.seen[k].kind = "error") =>
     /\ last.pc # "ok"
     /\ last.response \in {"500", "logged_error"}

\* The email a document carries in the legacy field, if any.
LegacyEmail(doc) ==
  IF "customerEmail" \in DOMAIN doc THEN doc.customerEmail ELSE NoEmail

DocEmails(doc) == {doc.studentInfo.email, LegacyEmail(doc)} \ {NoEmail}

\* C13  Legacy lookup.  A lookup never answers "no document" for an email that
\* a stored document carries in its legacy customerEmail field, and no two
\* documents carry the same email, in whichever field.
C13_LegacyDocumentFound ==
  /\ \A t \in Triggers : \A k \in 1..Len(run[t].seen) :
        run[t].seen[k].kind = "empty" =>
           \A id \in DOMAIN store : LegacyEmail(store[id]) # run[t].seen[k].email
  /\ \A a, b \in DOMAIN store :
        a # b => DocEmails(store[a]) \cap DocEmails(store[b]) = {}

\* C14  No headless records.  A record whose email is missing or blank is in
\* no email group: no run queues a write, provisions credentials or sends a
\* welcome email for it, and every stored document has a non-blank
\* studentInfo.email.
C14_NoHeadlessDocument ==
  /\ \A id \in DOMAIN store : Trim(store[id].studentInfo.email) # NoEmail
  /\ \A t \in Triggers :
        /\ \A k \in 1..Len(GroupKeys(run[t].recs)) :
              GroupKeys(run[t].recs)[k] # NoEmail
        /\ \A k \in 1..Len(run[t].batch) : Trim(run[t].batch[k].ref) # NoEmail
  /\ \A c \in created : Trim(c.email) # NoEmail
  /\ \A w \in welcomed : Trim(w.email) # NoEmail

\* A run that was handed a record with a blank email next to one with an
\* email has committed a document.
C14_Witness ==
  /\ last.pc = "ok"
  /\ \E k \in 1..Len(last.recs) : last.recs[k].courseId = "O7-1"
  /\ Len(last.batch) = 1
  /\ last.batch[1].ref \in DOMAIN store

\* Every incoming record has the identity key of a course of the document.
AllDuplicates(coursesForUser, existingCourses) ==
  \A i \in 1..Len(coursesForUser) : \E j \in 1..Len(existingCourses) :
     IdentityKey(existingCourses[j]) = IdentityKey(coursesForUser[i])

\* The lookup answers of run r that found a document holding a duplicate of
\* every incoming record of that email.
DuplicateOnly(r) ==
  { k \in 1..Len(r.seen) :
      /\ r.seen[k].kind = "found"
      /\ AllDuplicates(CoursesForUser(r.recs, r.seen[k].email), r.seen[k].courses) }

\* C15  No-op on duplicates.  For an existing student all of whose incoming
\* records duplicate courses of the document, the run queues no write, and
\* its commit leaves the document, lastSynced included, as it found it.
C15_NoOpOnDuplicates ==
  /\ \A t \in Triggers : \A k \in DuplicateOnly(run[t]) :
        WritesTo(run[t].batch, run[t].seen[k].ref) = <<>>
  /\ last.pc = "ok" =>
        \A k \in DuplicateOnly(last) :
           /\ WritesTo(last.batch, last.seen[k].ref) = <<>>
           /\ store[last.seen[k].ref] = last.before[last.seen[k].ref]

\* A run has committed a write for one student and found only duplicates for
\* another, whose document keeps its earlier lastSynced.
C15_Witness ==
  /\ last.pc = "ok"
  /\ last.batch # <<>>
  /\ \E k \in DuplicateOnly(last) : store[last.seen[k].ref].lastSynced < clock

\* The create-write run r must hold for the k-th email it provisioned.
ExpectedCreate(r, k) ==
  LET email          == r.auths[k].email
      coursesForUser == CoursesForUser(r.recs, email)
  IN  SetWrite(email, StudentInfoWithoutPassword(coursesForUser[1].studentInfo, email),
               MapCourseOnly(coursesForUser))

RECURSIVE CountQueued(_)
CountQueued(batch) ==
  IF batch = <<>> THEN 0 ELSE Len(Head(batch).courses) + CountQueued(Tail(batch))

\* Run r has queued and counted the create of every email it provisioned and
\* has not ended in an error for it.
ProvisioningHarmless(r) ==
  /\ \A k \in 1..Len(r.auths) : WritesTo(r.batch, r.auths[k].email) = << ExpectedCreate(r, k) >>
  /\ r.successCount = CountQueued(r.batch)
  /\ (r.auths # <<>> /\ r.pc \notin {"lookup", "auth", "commit", "ok"}) =>
        r.pc = "commit_error" /\ r.commits = 1

\* C16  Provisioning is non-fatal.  Whatever createUser answered for a newly
\* seen email (created, already exists, any other error), the run went on:
\* the create-write of that student is queued and counted, and the run only
\* ends in an error if its commit is rejected.
C16_ProvisioningNonFatal ==
  /\ \A t \in Triggers : ProvisioningHarmless(run[t])
  /\ ProvisioningHarmless(last)

\* A run has committed the document of a student whose provisioning failed
\* with an error other than "already exists".
C16_Witness ==
  /\ last.pc = "ok"
  /\ \E k \in 1..Len(last.auths) :
        /\ last.auths[k].outcome = "auth/other"
        /\ last.auths[k].email \in DOMAIN store
  /\ \E k \in 1..Len(last.auths) : last.auths[k].outcome = "auth/email-already-exists"

\* C17  Fire-and-forget welcome email.  A run that has reached batch.commit
\* can commit whatever the state of the welcome emails it dispatched, and the
\* settling of a welcome email, however it ends, changes neither a run, nor a
\* run's result, nor the store.
C17_FireAndForget ==
  /\ [](\A t \in Triggers : run[t].pc = "commit" => ENABLED CommitOk(t))
  /\ [][(\E e \in DOMAIN mail : mail[e] = "pending" /\ mail'[e] # "pending")
          => UNCHANGED <<store, run, last>>]_vars

\* A run has committed the documents of two students while the welcome email
\* of one was still pending, and the welcome email of the other has thrown.
C17_Witness ==
  /\ last.pc = "ok"
  /\ \E k1, k2 \in 1..Len(last.auths) :
        /\ mail[last.auths[k1].email] = "pending"
        /\ mail[last.auths[k2].email] = "threw"
        /\ last.auths[k1].email \in DOMAIN store
        /\ last.auths[k2].email \in DOMAIN store

ServiceItems(o) ==
  IF o.hasLineItems
  THEN SelectSeq(o.lineItems, LAMBDA item : item.lineItemType = "SERVICE")
  ELSE <<>>

\* The SERVICE line items of the order are n >= 1 items of one product, whose
\* name classifies to a program.
OneProgramProduct(o) ==
  /\ ServiceItems(o) # <<>>
  /\ \A i \in 1..Len(ServiceItems(o)) :
        ServiceItems(o)[i].productName = ServiceItems(o)[1].productName
  /\ \/ isAssociatesProgram(ServiceItems(o)[1].productName)
     \/ isPropheticGuidance(ServiceItems(o)[1].productName)

\* C19  Multiple students per order.  For an order whose n SERVICE line items
\* are of one product with a program name, the mapper returns n records in
\* line-item order, the i-th built from the i-th line item: its courseId ends
\* in that item's id and its studentInfo.email is that item's Email.
C19_OneRecordPerLineItem ==
  (mapped # NotMapped /\ OneProgramProduct(order)) =>
     /\ mapped.kind = "array"
     /\ Len(mapped.value) = Len(ServiceItems(order))
     /\ \A i \in 1..Len(mapped.value) :
           /\ mapped.value[i].courseId = order.id \o "-" \o ServiceItems(order)[i].id
           /\ mapped.value[i].studentInfo.email =
                 Trim(FromEntries(ServiceItems(order)[i].customizations, "Email", <<>>))

\* C20  No SERVICE line items.  For an order without a SERVICE line item, be
\* its line-item list absent, empty or of other items only, the mapper
\* returns an empty sequence.
C20_NoServiceItemsEmpty ==
  (mapped # NotMapped /\ ServiceItems(order) = <<>>) => mapped = Array(<<>>)

\* A line item the mapper groups whose product name no classifier matches.
Unclassified(item) ==
  /\ Groupable(item)
  /\ ~isAssociatesProgram(item.productName)
  /\ ~isPropheticGuidance(item.productName)

\* C21  Generic fallback.  When the order holds a SERVICE line item whose
\* product name matches no classifier, the mapper returns an array with a
\* record of courseType "Generic" for it: the item is not dropped.
C21_GenericFallback ==
  (mapped # NotMapped /\ order.hasLineItems
     /\ \E i \in 1..Len(order.lineItems) : Unclassified(order.lineItems[i])) =>
     /\ mapped.kind = "array"
     /\ \E k \in 1..Len(mapped.value) : mapped.value[k].courseType = "Generic"

\* A product name that both classifiers match.
MatchesBoth(name) == isAssociatesProgram(name) /\ isPropheticGuidance(name)

\* C22  Classifier priority.  The Associates classifier is asked first: for
\* an order whose SERVICE line items are n >= 1 items of one product whose
\* name both classifiers match, the mapper returns n records, all built by
\* the Associates builder.
C22_ClassifierPriority ==
  (mapped # NotMapped /\ ServiceItems(order) # <<>>
     /\ \A i \in 1..Len(ServiceItems(order)) :
           /\ ServiceItems(order)[i].productName = ServiceItems(order)[1].productName
           /\ MatchesBoth(ServiceItems(order)[i].productName)) =>
     /\ mapped.kind = "array"
     /\ Len(mapped.value) = Len(ServiceItems(order))
     /\ \A k \in 1..Len(mapped.value) :
           mapped.value[k].courseType = "AssociatesProgram"

\* The order reaches the builders: it has line items, none of them null.
ReachesBuilders(o) ==
  /\ o.hasLineItems
  /\ \A i \in 1..Len(o.lineItems) : o.lineItems[i] # NullItem

\* The builder of the product group called `name` throws for this order.
GroupThrows(o, name) ==
  /\ \E i \in 1..Len(o.lineItems) :
        Groupable(o.lineItems[i]) /\ o.lineItems[i].productName = name
  /\ BuildGroup(o, name).threw

\* C23  Mapper error isolation.  When the builder of a product group throws,
\* mapCourseToModel still returns an array, and that array holds the record
\* of every line item of the order's other groups that a builder accepts
\* (a SERVICE item of product "Associates Program" or "Prophetic Guidance").
C23_MapperErrorIsolation ==
  (mapped # NotMapped /\ ReachesBuilders(order)
     /\ \E i \in 1..Len(order.lineItems) :
           GroupThrows(order, order.lineItems[i].productName)) =>
     /\ mapped.kind = "array"
     /\ \A i \in 1..Len(order.lineItems) :
           LET item == order.lineItems[i] IN
           (/\ item.lineItemType = "SERVICE"
            /\ item.productName \in {NameAssociates, NameGuidance}
            /\ ~GroupThrows(order, item.productName)) =>
              \E k \in 1..Len(mapped.value) :
                 mapped.value[k].courseId = order.id \o "-" \o item.id

\* An order with a group whose builder threw and a record of another group.
C23_Witness ==
  /\ mapped.kind = "array"
  /\ mapped.value # <<>>
  /\ ReachesBuilders(order)
  /\ \E i \in 1..Len(order.lineItems) :
        GroupThrows(order, order.lineItems[i].productName)

\* The orders of the input whose processing throws, and the records the
\* mapper yields for the others.
OrderThrows(o) == ProcessOrder(o).threw

RECURSIVE RecordsOfOthers(_)
RecordsOfOthers(os) ==
  IF os = <<>> THEN <<>>
  ELSE IF OrderThrows(Head(os)) \/ mapCourseToModel(Head(os)).kind # "array"
       THEN RecordsOfOthers(Tail(os))
       ELSE mapCourseToModel(Head(os)).value \o RecordsOfOthers(Tail(os))

\* C24  Batch error isolation.  processOrderData returns an array whatever
\* the orders: empty for an empty input; otherwise the records of the orders
\* whose mapping does not throw, in input order, and none for an order whose
\* mapping throws.
C24_BatchErrorIsolation ==
  processed # NotProcessed =>
     /\ processed.kind = "array"
     /\ orders = <<>> => processed.value = <<>>
     /\ processed.value = RecordsOfOthers(orders)
     /\ \A i \in 1..Len(orders) : OrderThrows(orders[i]) =>
           \A k \in 1..Len(processed.value) :
              \A c \in 1..Len(orders[i].lineItems) :
                 processed.value[k].courseId #
                    orders[i].id \o "-" \o orders[i].lineItems[c].id

\* An input with an order that throws between two orders that yield records.
C24_Witness ==
  /\ processed.kind = "array"
  /\ Len(orders) = 3
  /\ OrderThrows(orders[2])
  /\ ~OrderThrows(orders[1]) /\ ~OrderThrows(orders[3])
  /\ Len(processed.value) >= 2
  /\ processed.value[1].courseId = orders[1].id \o "-" \o orders[1].lineItems[1].id

\* processOrderData was given no order.
C24_WitnessEmpty == processed = Array(<<>>) /\ orders = <<>>

\* A label without its surrounding whitespace and in lower case.
TrimLabel(w) ==
  CASE w = " Email " -> "Email"
    [] w = " Name " -> "Name"
    [] OTHER -> w

NormalLabel(w) == LowerWord(TrimLabel(w))

\* The value of the first pair whose label is the requested one, letter case
\* and surrounding whitespace ignored; `empty` when there is none.
RECURSIVE FirstMatch(_, _, _)
FirstMatch(customizations, label, empty) ==
  IF customizations = <<>> THEN empty
  ELSE IF NormalLabel(Head(customizations).label) = NormalLabel(label)
       THEN Head(customizations).value
       ELSE FirstMatch(Tail(customizations), label, empty)

\* C25  Field extraction.  Every record the mapper builds carries, as the
\* student's email, the (trimmed) value of the first Email pair of its line
\* item, where a pair is an Email pair when its label is "Email" up to letter
\* case and surrounding whitespace, and the empty value when the item has no
\* such pair; this in the Associates as in the Guidance builder.
C25_FirstMatchingLabel ==
  (mapped.kind = "array") =>
     \A k \in 1..Len(mapped.value) :
        \A i \in 1..Len(order.lineItems) :
           mapped.value[k].courseId = order.id \o "-" \o order.lineItems[i].id =>
              mapped.value[k].studentInfo.email =
                 Trim(FirstMatch(order.lineItems[i].customizations, "Email", <<>>))

\* The position of the first whitespace character of a name (one past its
\* end when it has none).
FirstWhitespace(s) ==
  IF \E i \in 1..Len(s) : IsSpace(s[i])
  THEN CHOOSE i \in 1..Len(s) : IsSpace(s[i]) /\ \A j \in 1..(i - 1) : ~IsSpace(s[j])
  ELSE Len(s) + 1

\* C26  End-to-end build.  The order whose one line item is the Associates
\* Program enrollment of Amina Khan (amina@example.com, Plan Full, Section
\* Year 1) yields exactly one record, with firstName "Amina", lastName
\* "Khan", that email, level "Year 1" and plan "Full".  And every Associates
\* record has as firstName and lastName the parts of its item's Name before
\* and after the first whitespace, and plan and section from the item's
\* variant options.
C26_BuildScenario ==
  (mapped # NotMapped /\ ReachesBuilders(order)) =>
     /\ order.lineItems = << ItemAmina >> =>
           /\ mapped.kind = "array"
           /\ Len(mapped.value) = 1
           /\ mapped.value[1].studentInfo.firstName = <<"A", "m", "i", "n", "a">>
           /\ mapped.value[1].studentInfo.lastName = <<"K", "h", "a", "n">>
           /\ mapped.value[1].studentInfo.email = EmailAmina
           /\ mapped.value[1].placementInfo.level = "Year 1"
           /\ mapped.value[1].placementInfo.plan = "Full"
     /\ mapped.kind = "array" =>
           \A k \in 1..Len(mapped.value) :
              \A i \in 1..Len(order.lineItems) :
                 LET item == order.lineItems[i]
                     name == FirstMatch(item.customizations, "Name", <<>>)
                 IN
                 (/\ mapped.value[k].courseType = "AssociatesProgram"
                  /\ mapped.value[k].courseId = order.id \o "-" \o item.id) =>
                    /\ mapped.value[k].studentInfo.firstName =
                          SubSeq(name, 1, FirstWhitespace(name) - 1)
                    /\ mapped.value[k].studentInfo.lastName =
                          SubSeq(name, FirstWhitespace(name) + 1, Len(name))
                    /\ mapped.value[k].placementInfo.plan =
                          getVariantOption(item.variantOptions, "Plan")
                    /\ mapped.value[k].placementInfo.section =
                          getVariantOption(item.variantOptions, "Section")

\* The operation limit of one batch (500 in the maintenance scripts), scaled
\* to the number of writes a run of this model can queue.
BatchLimit == 1

\* C27  Bounded batch size.  A run that committed its writes made enough
\* commits for no batch to hold more than BatchLimit of them: a run with
\* more queued writes than the limit split them over several batches.
C27_BoundedBatch ==
  (last.pc = "ok" /\ last.batch # <<>>) =>
     last.commits * BatchLimit >= Len(last.batch)

\* C28  Notification follows persistence.  Every student for whom the run
\* that finished last requested credentials and dispatched the welcome email
\* has a document in the store, also when that run's commit failed.
C28_NotifiedOnlyIfPersisted ==
  last.pc \in {"ok", "commit_error"} =>
     \A k \in 1..Len(last.auths) :
        QueryByEmail(store, last.auths[k].email) # {}

\* The emails createUser was asked for, and those a welcome email went to.
ProvisionedEmails == { c.email : c \in created }
NotifiedEmails == { NormalizeEmail(w.email) : w \in welcomed }

\* C29  Onboarding happens once.  A run takes the new-user branch (createUser,
\* sendWelcomeEmail) only for an email for which no earlier step requested
\* credentials or dispatched a welcome email.
C29_OnboardingOnce ==
  [][\A t \in Triggers :
        Len(run'[t].auths) > Len(run[t].auths) =>
           LET email == run'[t].auths[Len(run'[t].auths)].email IN
           /\ email \notin ProvisionedEmails
           /\ email \notin NotifiedEmails]_vars

\* C30  Credential consistency.  The password a welcome email shows to a
\* student is the password createUser was given for that student's email.
C30_CredentialConsistency ==
  \A c \in created : \A w \in welcomed :
     NormalizeEmail(w.email) = c.email => w.password = c.password

\* C31  Student profile is frozen on append.  After a commit, every document
\* the batch updated (appended courses to) has the studentInfo and the
\* createdAt it had before the commit and the same fields; only its courses
\* and lastSynced may differ.
C31_ProfileFrozenOnAppend ==
  last.pc = "ok" =>
     \A k \in 1..Len(last.batch) :
        LET w == last.batch[k] IN
        (w.op = "update" /\ w.ref \in DOMAIN last.before) =>
           /\ w.ref \in DOMAIN store
           /\ store[w.ref].studentInfo = last.before[w.ref].studentInfo
           /\ store[w.ref].createdAt = last.before[w.ref].createdAt
           /\ DOMAIN store[w.ref] = DOMAIN last.before[w.ref]

\* A commit appended a course whose record names the student differently
\* from the stored profile.
C31_Witness ==
  /\ last.pc = "ok"
  /\ \E k \in 1..Len(last.batch) :
        LET w == last.batch[k] IN
        /\ w.op = "update"
        /\ w.ref \in DOMAIN store
        /\ Len(store[w.ref].courses) > Len(last.before[w.ref].courses)
        /\ \E n \in 1..Len(last.recs) :
              /\ HasEmail(last.recs[n])
              /\ EmailOf(last.recs[n]) = store[w.ref].studentInfo.email
              /\ last.recs[n].studentInfo.lastName # store[w.ref].studentInfo.lastName

\* The minute of the timer's latest run.
LastFetch ==
  IF fetched = {} THEN -1
  ELSE CHOOSE m \in { w[2] : w \in fetched } : \A w \in fetched : w[2] <= m

\* C32  Fetch-window coverage.  Every order modification made since the
\* scheduler started and up to the timer's latest run lies inside the window
\* <<modifiedAfter, modifiedBefore>> of one of the timer's runs.
C32_WindowCoverage ==
  \A m \in modifiedAt :
     m <= LastFetch => \E w \in fetched : w[1] <= m /\ m <= w[2]

====
